---- MODULE Spec2Model ----
(***************************************************************************)
(* Model of the JePPIX statistics engine: stat_analysis.stat_utils (the    *)
(* quarter resolver and the job, order and user aggregators),              *)
(* stat_analysis.models.report.Report.save (the orchestrating save hook)   *)
(* and the three result tables of stat_analysis.models.statistics.         *)
(*                                                                         *)
(* A date is <<year, month, day>>; a timestamp (DateTimeField) is          *)
(* <<date, tick>> with TicksPerDay ticks in a day, tick 0 being midnight.  *)
(* A nullable field holds NULL when unset; a nullable user reference holds *)
(* NoUser.  A float is kept exact as a reduced fraction <<num, den>>.      *)
(***************************************************************************)
EXTENDS Integers, Sequences, FiniteSets

-----------------------------------------------------------------------------
(* The rows and values of the model, field by field.  Every record below   *)
(* is written with its fields in the order they are listed here.           *)

\* stat_analysis.Report: the fields a save stores
ReportInstances ==
    [title : STRING, report_type : STRING,
     quarter_from : STRING, year_from : Int, quarter_to : STRING, year_to : Int]

\* a resolved range of dates, and a raised exception
DateRanges == [start : Seq(Int), end : Seq(Int)]

Exceptions == [error : STRING]

\* the latest call
Calls ==
    [op : STRING, quarter : STRING, year : Int, result : DateRanges,
     pk : Int, instance : ReportInstances, is_new : BOOLEAN, raised : STRING,
     manager_order : Seq(STRING), customer_order : Seq(STRING),
     stamped : BOOLEAN, affected : SUBSET Int, computations : Int]

\* a row of a result table: the report it belongs to and its statistics
JobStatisticsFields ==
    [total_jobs : Int, avg_completion_time_regular : Seq(Int),
     avg_completion_time_wafer_run : Seq(Int), jobs_created : Int,
     jobs_active : Int, jobs_completed : Int, jobs_failed : Int, jobs_delayed : Int]

OrderStatisticsFields ==
    [total_orders : Int, total_revenue : Int, average_order_value : Int,
     orders_draft : Int, orders_submitted : Int, orders_in_progress : Int,
     orders_completed : Int, orders_cancelled : Int, avg_processing_time : Seq(Int)]

UserStatisticsFields ==
    [total_active_users : Int, new_customers : Int, active_account_managers : Int,
     top_performing_account_manager : STRING, top_customer : STRING,
     total_orders_by_top_manager : Int, total_revenue_by_top_manager : Int]

ResultRows ==
    [report : Int,
     fields : JobStatisticsFields \cup OrderStatisticsFields \cup UserStatisticsFields]

\* the three result tables while a save runs, with the exception raised, if any
ResultTables ==
    [exception : STRING, job : Seq(ResultRows), order : Seq(ResultRows),
     user : Seq(ResultRows)]

UpsertResults == [exception : STRING, table : Seq(ResultRows)]

\* execution.Job and provider_services.Order: the fields the model follows
JobRowFields ==
    [state : STRING, job_type : STRING, starting_date : Seq(Int),
     end_date : Seq(Int), completion_time : Seq(Int)]

OrderRowFields ==
    [status : STRING, created_at : Seq(Int), completed_at : Seq(Int),
     account_manager : STRING, customer : STRING, total_price : Int]

\* what the aggregators read: the tables and the orders of enumeration
QueryData ==
    [jobs : Seq(JobRowFields), orders : Seq(OrderRowFields),
     last_login : [STRING -> Seq(Int)],
     managers : Seq(STRING), customers : Seq(STRING)]

\* the users behind the account managers and customers
Profiles == [m1 : STRING, m2 : STRING, c1 : STRING, c2 : STRING]

Joined == [u1 : Seq(Int), u2 : Seq(Int), u3 : Seq(Int), u4 : Seq(Int)]

\* provider_services.OrderItem: the order it belongs to, quantity, unit price
ItemRowFields == [order : Int, quantity : Int, price : Int]

\* a report save in flight: where it stands in calculate_job_statistics, the
\* statistics it computed, whether its get found no row and its create failed
ThreadStates ==
    [instance : ReportInstances, pc : STRING, stats : JobStatisticsFields,
     missed : BOOLEAN, clashed : BOOLEAN]

VARIABLES
    form,          \* the in-memory Report instance handed to the resolver
    reports,       \* table stat_analysis.Report: pk -> row
    jobResults,    \* table stat_analysis.JobReportResult: sequence of rows
    orderResults,  \* table stat_analysis.OrderReportResult: sequence of rows
    userResults,   \* table stat_analysis.UserReportResult: sequence of rows
    jobs,          \* table execution.Job: sequence of rows
    orders,        \* table provider_services.Order: sequence of rows
    last_login,    \* auth.User.last_login: user -> timestamp or NULL
    items,         \* table provider_services.OrderItem: pk -> row
    threads,       \* the report saves in flight: thread -> its local state
    last           \* the latest call: its arguments and how it ended

vars == <<form, reports, jobResults, orderResults, userResults, jobs, orders,
          last_login, items, threads, last>>

tables == <<reports, jobResults, orderResults, userResults, jobs, orders, last_login>>

-----------------------------------------------------------------------------
(* Bounds of the model *)

TicksPerDay == 2
MaxJobs == 1
MaxOrders == 1
DrawnJobs == 1
DrawnOrders == 2
MaxItems == 2
RecursionLimit == 3

NULL == <<>>
NoUser == "None"

\* no order item stored, no save in flight
NoItems == <<>>

NoThreads == <<>>

-----------------------------------------------------------------------------
(* datetime.date: validity, order and day arithmetic *)

IsLeap(y) == (y % 4 = 0 /\ y % 100 # 0) \/ y % 400 = 0

DaysInMonth(y, m) ==
    IF m = 2 THEN (IF IsLeap(y) THEN 29 ELSE 28)
    ELSE IF m \in {4, 6, 9, 11} THEN 30 ELSE 31

RECURSIVE DaysBeforeMonth(_, _)
DaysBeforeMonth(y, m) ==
    IF m = 1 THEN 0 ELSE DaysBeforeMonth(y, m - 1) + DaysInMonth(y, m - 1)

DaysBeforeYear(y) ==
    (y - 1) * 365 + ((y - 1) \div 4) - ((y - 1) \div 100) + ((y - 1) \div 400)

\* date.toordinal()
Ordinal(d) == DaysBeforeYear(d[1]) + DaysBeforeMonth(d[1], d[2]) + d[3]

\* datetime.date(y, m, d) raises ValueError for a day that does not exist
IsDate(d) == d[2] \in 1..12 /\ d[3] \in 1..DaysInMonth(d[1], d[2])

\* d1 < d2 and d1 <= d2 on dates
DateLT(d1, d2) ==
    \/ d1[1] < d2[1]
    \/ d1[1] = d2[1] /\ d1[2] < d2[2]
    \/ d1[1] = d2[1] /\ d1[2] = d2[2] /\ d1[3] < d2[3]

DateLE(d1, d2) == d1 = d2 \/ DateLT(d1, d2)

\* the builtins min(a, b) and max(a, b) on dates
MinDate(a, b) == IF DateLT(b, a) THEN b ELSE a

MaxDate(a, b) == IF DateLT(a, b) THEN b ELSE a

-----------------------------------------------------------------------------
(* stat_utils: the quarter and date-range resolver *)

Quarters == {"Q1", "Q2", "Q3", "Q4"}

ValueError == [error |-> "ValueError"]

IsError(x) == "error" \in DOMAIN x

\* a copy-paste slip: the Q3 branch yields the dates of Q2
GetQuarterDatesSlip(quarter, year) ==
    CASE quarter = "Q1" -> [start |-> <<year, 1, 1>>, end |-> <<year, 3, 31>>]
      [] quarter = "Q2" -> [start |-> <<year, 4, 1>>, end |-> <<year, 6, 30>>]
      [] quarter = "Q3" -> [start |-> <<year, 4, 1>>, end |-> <<year, 6, 30>>]
      [] quarter = "Q4" -> [start |-> <<year, 10, 1>>, end |-> <<year, 12, 31>>]
      [] OTHER -> ValueError

GetQuarterDates(quarter, year) ==
    CASE quarter = "Q1" -> [start |-> <<year, 1, 1>>, end |-> <<year, 3, 31>>]
      [] quarter = "Q2" -> [start |-> <<year, 4, 1>>, end |-> <<year, 6, 30>>]
      [] quarter = "Q3" -> [start |-> <<year, 7, 1>>, end |-> <<year, 9, 30>>]
      [] quarter = "Q4" -> [start |-> <<year, 10, 1>>, end |-> <<year, 12, 31>>]
      [] OTHER -> ValueError

\* the endpoints taken in the order given, without min and max
GetDateRangeAsGiven(report) ==
    LET from == GetQuarterDates(report.quarter_from, report.year_from)
        to == GetQuarterDates(report.quarter_to, report.year_to)
    IN  IF IsError(from) THEN from
        ELSE IF IsError(to) THEN to
        ELSE [start |-> from.start, end |-> to.end]

GetDateRangeForReport(report) ==
    LET from == GetQuarterDates(report.quarter_from, report.year_from)
        to == GetQuarterDates(report.quarter_to, report.year_to)
    IN  IF IsError(from) THEN from
        ELSE IF IsError(to) THEN to
        ELSE [start |-> MinDate(from.start, to.start),
              end |-> MaxDate(from.end, to.end)]

-----------------------------------------------------------------------------
(* The resolver on its own: every endpoint pair, each function applied *)

QuarterTags == Quarters \cup {"Q5"}

Years == {1900, 2000, 2023, 2024}

Forms == [quarter_from : QuarterTags, year_from : Years,
          quarter_to : QuarterTags, year_to : Years]

NoCall == [op |-> "none"]

InitQuarter ==
    /\ form \in Forms
    /\ reports = <<>>
    /\ jobResults = <<>>
    /\ orderResults = <<>>
    /\ userResults = <<>>
    /\ jobs = <<>>
    /\ orders = <<>>
    /\ last_login = <<>>
    /\ items = NoItems
    /\ threads = NoThreads
    /\ last = NoCall

CallGetQuarterDates ==
    /\ last' = [op |-> "get_quarter_dates",
                quarter |-> form.quarter_from, year |-> form.year_from,
                result |-> GetQuarterDates(form.quarter_from, form.year_from)]
    /\ UNCHANGED <<form, items, threads, tables>>

CallGetDateRangeForReport ==
    /\ last' = [op |-> "get_date_range_for_report",
                result |-> GetDateRangeForReport(form)]
    /\ UNCHANGED <<form, items, threads, tables>>

NextQuarter == CallGetQuarterDates \/ CallGetDateRangeForReport

SpecQuarter == InitQuarter /\ [][NextQuarter]_vars

-----------------------------------------------------------------------------
(* Claims about the resolver, checked under SpecQuarter *)

\* the number of days from the first to the last day of a range, both counted
SpanDays(r) == Ordinal(r.end) - Ordinal(r.start) + 1

\* the calendar length of each quarter, in days
CalendarQuarterLength(quarter, year) ==
    CASE quarter = "Q1" -> IF IsLeap(year) THEN 91 ELSE 90
      [] quarter = "Q2" -> 91
      [] quarter = "Q3" -> 92
      [] quarter = "Q4" -> 92

\* the lengths as the claim lists them, Q1 to Q4: 90 (91 in a leap year), 91, 92, 91
ListedQuarterLength(quarter, year) ==
    CASE quarter = "Q1" -> IF IsLeap(year) THEN 91 ELSE 90
      [] quarter = "Q2" -> 91
      [] quarter = "Q3" -> 92
      [] quarter = "Q4" -> 91

\* Q1 = Jan 1 to Mar 31, Q2 = Apr 1 to Jun 30, Q3 = Jul 1 to Sep 30, Q4 = Oct 1 to Dec 31
CalendarQuarter(quarter, year) ==
    CASE quarter = "Q1" -> [start |-> <<year, 1, 1>>, end |-> <<year, 3, 31>>]
      [] quarter = "Q2" -> [start |-> <<year, 4, 1>>, end |-> <<year, 6, 30>>]
      [] quarter = "Q3" -> [start |-> <<year, 7, 1>>, end |-> <<year, 9, 30>>]
      [] quarter = "Q4" -> [start |-> <<year, 10, 1>>, end |-> <<year, 12, 31>>]

QuarterDatesReturned ==
    /\ last.op = "get_quarter_dates"
    /\ last.quarter \in Quarters

\* C5 (as amended): for every quarter tag in {Q1..Q4} and every year,
\* get_quarter_dates returns the first and the last day of that calendar
\* quarter, both existing dates with start <= end, and the span is the
\* calendar length of the quarter: Q1 = 90 days (91 in a leap year),
\* Q2 = 91, Q3 = 92 and Q4 = 92.
C5_QuarterDates ==
    QuarterDatesReturned =>
        /\ ~IsError(last.result)
        /\ last.result = CalendarQuarter(last.quarter, last.year)
        /\ IsDate(last.result.start) /\ IsDate(last.result.end)
        /\ DateLE(last.result.start, last.result.end)
        /\ SpanDays(last.result) = CalendarQuarterLength(last.quarter, last.year)

\* C5 witness: the fourth quarter of a year resolved, 92 days long.
C5_Witness ==
    /\ QuarterDatesReturned
    /\ last.quarter = "Q4"
    /\ SpanDays(last.result) = 92

\* C5 (as stated): the span of the returned quarter is 90/91/92/91 days for
\* Q1/Q2/Q3/Q4 (Q1 one day longer in a leap year).
C5_AsStated ==
    QuarterDatesReturned =>
        /\ ~IsError(last.result)
        /\ last.result = CalendarQuarter(last.quarter, last.year)
        /\ DateLE(last.result.start, last.result.end)
        /\ SpanDays(last.result) = ListedQuarterLength(last.quarter, last.year)

Swapped(f) == [quarter_from |-> f.quarter_to, year_from |-> f.year_to,
               quarter_to |-> f.quarter_from, year_to |-> f.year_from]

\* the earlier and the later of two dates, by their day numbers
Earlier(a, b) == IF Ordinal(a) <= Ordinal(b) THEN a ELSE b

Later(a, b) == IF Ordinal(a) >= Ordinal(b) THEN a ELSE b

DateRangeReturned ==
    /\ last.op = "get_date_range_for_report"
    /\ form.quarter_from \in Quarters
    /\ form.quarter_to \in Quarters

\* C6: get_date_range_for_report does not depend on the order of the two
\* endpoints: a report from A to B and a report from B to A resolve to the
\* same range, [the earlier of the two quarter starts, the later of the two
\* quarter ends], and that range has start <= end also when the
\* from-endpoint is chronologically after the to-endpoint.
C6_OrderIndependent ==
    DateRangeReturned =>
        LET a == CalendarQuarter(form.quarter_from, form.year_from)
            b == CalendarQuarter(form.quarter_to, form.year_to)
        IN  /\ ~IsError(last.result)
            /\ last.result = GetDateRangeForReport(Swapped(form))
            /\ last.result.start = Earlier(a.start, b.start)
            /\ last.result.end = Later(a.end, b.end)
            /\ Ordinal(last.result.start) <= Ordinal(last.result.end)

\* C6 witness: a resolved report whose from-endpoint lies after its to-endpoint.
C6_Witness ==
    /\ DateRangeReturned
    /\ Ordinal(CalendarQuarter(form.quarter_from, form.year_from).start)
         > Ordinal(CalendarQuarter(form.quarter_to, form.year_to).end)
    /\ ~IsError(last.result)

-----------------------------------------------------------------------------
(* Timestamps, exact fractions and the query helpers of the aggregators *)

\* a DateTimeField compared with a datetime.date: Django turns the date into
\* the datetime at midnight of that day (DateTimeField.to_python)
AsDateTime(d) == <<d, 0>>

\* t1 <= t2 on timestamps
TsLE(t1, t2) == DateLT(t1[1], t2[1]) \/ (t1[1] = t2[1] /\ t1[2] <= t2[2])

\* field__gte=start_date, field__lte=end_date
InPeriod(ts, range) ==
    /\ ts # NULL
    /\ TsLE(AsDateTime(range.start), ts)
    /\ TsLE(ts, AsDateTime(range.end))

TickNumber(ts) == Ordinal(ts[1]) * TicksPerDay + ts[2]

Abs(n) == IF n < 0 THEN -n ELSE n

RECURSIVE Gcd(_, _)
Gcd(a, b) == IF b = 0 THEN a ELSE Gcd(b, a % b)

\* the number n / d (d > 0), reduced
Frac(n, d) == LET g == Gcd(Abs(n), d) IN <<n \div g, d \div g>>

Zero == Frac(0, 1)

FracAdd(a, b) == Frac(a[1] * b[2] + b[1] * a[2], a[2] * b[2])

RECURSIVE FracSum(_)
FracSum(seq) == IF seq = <<>> THEN Zero ELSE FracAdd(Head(seq), FracSum(Tail(seq)))

RECURSIVE IntSum(_)
IntSum(seq) == IF seq = <<>> THEN 0 ELSE Head(seq) + IntSum(Tail(seq))

Map(seq, Op(_)) == [i \in DOMAIN seq |-> Op(seq[i])]

NotNull(x) == x # NULL

\* Avg('field'): the mean of the values that are not null, None when there is none
AvgOf(values) ==
    LET present == SelectSeq(values, NotNull)
        total == FracSum(present)
    IN  IF present = <<>> THEN NULL
        ELSE Frac(total[1], total[2] * Len(present))

\* x or 0
OrZero(x) == IF x = NULL \/ x[1] = 0 THEN Zero ELSE x

\* integer division of n by d (d > 0) rounded half to even, as a DecimalField
\* quantizes a value to its decimal places when the row is written
RoundHalfEven(n, d) ==
    LET q == n \div d
        r == n % d
    IN  IF 2 * r < d THEN q
        ELSE IF 2 * r > d THEN q + 1
        ELSE IF q % 2 = 0 THEN q ELSE q + 1

Count(seq, Test(_)) == Len(SelectSeq(seq, Test))

-----------------------------------------------------------------------------
(* stat_utils.calculate_job_statistics *)

JobStates == {"created", "active", "completed", "failed", "delayed"}

JobTypes == {"regular", "wafer_run"}

JobsInPeriod(range, jobTable) ==
    SelectSeq(jobTable, LAMBDA j : InPeriod(j.starting_date, range))

AvgCompletion(inPeriod, type) ==
    LET completed == SelectSeq(inPeriod, LAMBDA j : j.state = "completed")
        ofType == SelectSeq(completed, LAMBDA j : j.job_type = type)
    IN  OrZero(AvgOf(Map(ofType, LAMBDA j : j.completion_time)))

JobStatistics(range, jobTable) ==
    LET inPeriod == JobsInPeriod(range, jobTable)
        InState(st) == Count(inPeriod, LAMBDA j : j.state = st)
    IN  [total_jobs |-> Len(inPeriod),
         avg_completion_time_regular |-> AvgCompletion(inPeriod, "regular"),
         avg_completion_time_wafer_run |-> AvgCompletion(inPeriod, "wafer_run"),
         jobs_created |-> InState("created"),
         jobs_active |-> InState("active"),
         jobs_completed |-> InState("completed"),
         jobs_failed |-> InState("failed"),
         jobs_delayed |-> InState("delayed")]

-----------------------------------------------------------------------------
(* stat_utils.calculate_order_statistics; prices are in cents *)

OrderStatuses == {"draft", "submitted", "in_progress", "completed", "cancelled"}

OrdersInPeriod(range, orderTable) ==
    SelectSeq(orderTable, LAMBDA o : InPeriod(o.created_at, range))

\* Sum('total_price') or 0
Revenue(orderSeq) == IntSum(Map(orderSeq, LAMBDA o : o.total_price))

AvgProcessingTime(inPeriod) ==
    LET completed == SelectSeq(inPeriod,
                        LAMBDA o : o.status = "completed" /\ o.completed_at # NULL)
        ticks == IntSum(Map(completed,
                        LAMBDA o : TickNumber(o.completed_at) - TickNumber(o.created_at)))
    IN  IF completed = <<>> THEN NULL
        ELSE IF ticks = 0 THEN NULL
        ELSE Frac(ticks, Len(completed) * TicksPerDay)

OrderStatistics(range, orderTable) ==
    LET inPeriod == OrdersInPeriod(range, orderTable)
        InStatus(st) == Count(inPeriod, LAMBDA o : o.status = st)
        total_orders == Len(inPeriod)
        total_revenue == Revenue(inPeriod)
    IN  [total_orders |-> total_orders,
         total_revenue |-> total_revenue,
         average_order_value |-> IF total_orders > 0
                                 THEN RoundHalfEven(total_revenue, total_orders)
                                 ELSE 0,
         orders_draft |-> InStatus("draft"),
         orders_submitted |-> InStatus("submitted"),
         orders_in_progress |-> InStatus("in_progress"),
         orders_completed |-> InStatus("completed"),
         orders_cancelled |-> InStatus("cancelled"),
         avg_processing_time |-> AvgProcessingTime(inPeriod)]

-----------------------------------------------------------------------------
(* stat_utils.calculate_user_statistics *)

AccountManagers == {"m1", "m2"}

Customers == {"c1", "c2"}

\* AccountManager.user and Customer.user, one-to-one
UserOf == [m1 |-> "u1", m2 |-> "u2", c1 |-> "u3", c2 |-> "u4"]

Users == {"u1", "u2", "u3", "u4"}

\* auth.User.date_joined, set when the account is created
DateJoined == [u1 |-> <<<<2023, 1, 1>>, 0>>, u2 |-> <<<<2023, 1, 1>>, 0>>,
               u3 |-> <<<<2024, 1, 1>>, 0>>, u4 |-> <<<<2024, 3, 31>>, 1>>]

\* the orders in which a queryset without order_by may yield the rows of S
Enumerations(S) ==
    {e \in [1..Cardinality(S) -> S] : \A i, j \in DOMAIN e : i # j => e[i] # e[j]}

ActiveUsers(range, logins) == {u \in Users : InPeriod(logins[u], range)}

\* the loop over the managers, in the order enumerated: <<user, orders, revenue>>
RECURSIVE TopManagerLoop(_, _, _, _)
TopManagerLoop(enum, range, orderTable, top) ==
    IF enum = <<>> THEN top
    ELSE LET manager == Head(enum)
             manager_orders == SelectSeq(orderTable,
                 LAMBDA o : o.account_manager = manager /\ InPeriod(o.created_at, range))
             order_count == Len(manager_orders)
             revenue == Revenue(manager_orders)
         IN  TopManagerLoop(Tail(enum), range, orderTable,
                 IF order_count > top[2]
                 THEN <<UserOf[manager], order_count, revenue>>
                 ELSE top)

\* the loop over the customers, in the order enumerated: <<user, orders>>
RECURSIVE TopCustomerLoop(_, _, _, _)
TopCustomerLoop(enum, range, orderTable, top) ==
    IF enum = <<>> THEN top
    ELSE LET customer == Head(enum)
             customer_orders == Count(orderTable,
                 LAMBDA o : o.customer = customer /\ InPeriod(o.created_at, range))
         IN  TopCustomerLoop(Tail(enum), range, orderTable,
                 IF customer_orders > top[2]
                 THEN <<UserOf[customer], customer_orders>>
                 ELSE top)

UserStatistics(range, orderTable, logins, managers, customers) ==
    LET active_users == ActiveUsers(range, logins)
        top_manager == TopManagerLoop(managers, range, orderTable, <<NoUser, 0, 0>>)
        top_customer == TopCustomerLoop(customers, range, orderTable, <<NoUser, 0>>)
    IN  [total_active_users |-> Cardinality(active_users),
         new_customers |->
             Cardinality({c \in Customers : InPeriod(DateJoined[UserOf[c]], range)}),
         active_account_managers |->
             Cardinality({m \in AccountManagers : UserOf[m] \in active_users}),
         top_performing_account_manager |-> top_manager[1],
         top_customer |-> top_customer[1],
         total_orders_by_top_manager |-> top_manager[2],
         total_revenue_by_top_manager |-> top_manager[3]]

-----------------------------------------------------------------------------
(* The three result tables and their get_or_create-then-update upsert *)

RowsOf(table, pk) == {i \in DOMAIN table : table[i].report = pk}

\* get_or_create that never finds the row: every computation inserts
UpsertAlwaysCreates(table, pk, stats) ==
    [exception |-> "none", table |-> Append(table, [report |-> pk, fields |-> stats])]

\* objects.get_or_create(report=report, defaults=stats), then, when the row
\* was there already, every field assigned and the row saved
Upsert(table, pk, stats) ==
    LET found == RowsOf(table, pk)
        row == [report |-> pk, fields |-> stats]
    IN  IF found = {}
        THEN [exception |-> "none", table |-> Append(table, row)]
        ELSE IF Cardinality(found) = 1
        THEN [exception |-> "none",
              table |-> [table EXCEPT ![CHOOSE i \in found : TRUE] = row]]
        ELSE [exception |-> "MultipleObjectsReturned", table |-> table]

CalculateJobStatistics(pk, report, db, data) ==
    LET range == GetDateRangeForReport(report)
    IN  IF IsError(range) THEN [db EXCEPT !.exception = range.error]
        ELSE LET up == Upsert(db.job, pk, JobStatistics(range, data.jobs))
             IN  [db EXCEPT !.exception = up.exception, !.job = up.table]

CalculateOrderStatistics(pk, report, db, data) ==
    LET range == GetDateRangeForReport(report)
    IN  IF IsError(range) THEN [db EXCEPT !.exception = range.error]
        ELSE LET up == Upsert(db.order, pk, OrderStatistics(range, data.orders))
             IN  [db EXCEPT !.exception = up.exception, !.order = up.table]

CalculateUserStatistics(pk, report, db, data) ==
    LET range == GetDateRangeForReport(report)
    IN  IF IsError(range) THEN [db EXCEPT !.exception = range.error]
        ELSE LET up == Upsert(db.user, pk,
                           UserStatistics(range, data.orders, data.last_login,
                                          data.managers, data.customers))
             IN  [db EXCEPT !.exception = up.exception, !.user = up.table]

-----------------------------------------------------------------------------
(* stat_utils.calculate_report_statistics and Report.save *)

ReportTypes == {"job", "order", "user", "combined"}

\* the next statement of a function body: skipped once an exception is raised
AndThen(db, Statement(_)) ==
    CHOOSE after \in {IF d.exception # "none" THEN d ELSE Statement(d) : d \in {db}} : TRUE

\* every aggregator run, whatever the type of the report
CalculateAllStatistics(pk, report, db, data) ==
    AndThen(AndThen(CalculateJobStatistics(pk, report, db, data),
                    LAMBDA d : CalculateOrderStatistics(pk, report, d, data)),
            LAMBDA d : CalculateUserStatistics(pk, report, d, data))

CalculateReportStatistics(pk, report, db, data) ==
    AndThen(AndThen(IF report.report_type \in {"job", "combined"}
                    THEN CalculateJobStatistics(pk, report, db, data)
                    ELSE db,
                    LAMBDA d : IF report.report_type \in {"order", "combined"}
                               THEN CalculateOrderStatistics(pk, report, d, data)
                               ELSE d),
            LAMBDA d : IF report.report_type \in {"user", "combined"}
                       THEN CalculateUserStatistics(pk, report, d, data)
                       ELSE d)

\* the statistics left alone when an update changes nothing but the title
StatisticsUnlessRenamed(pk, report, stored, db, data) ==
    IF pk \in DOMAIN stored /\ [stored[pk] EXCEPT !.title = report.title] = report
    THEN db
    ELSE CalculateReportStatistics(pk, report, db, data)

\* Report.save after super().save(): stored is the Report table before the save
StatisticsOnSave(pk, report, stored, db, data) ==
    CalculateReportStatistics(pk, report, db, data)

\* Report.save of the instance `report` with primary key pk (a new instance
\* gets the next key); managers and customers are the orders in which
\* AccountManager.objects.all() and Customer.objects.all() yield their rows
ReportSave(pk, report, managers, customers) ==
    \E db \in {StatisticsOnSave(pk, report, reports,
                  [exception |-> "none", job |-> jobResults,
                   order |-> orderResults, user |-> userResults],
                  [jobs |-> jobs, orders |-> orders, last_login |-> last_login,
                   managers |-> managers, customers |-> customers])} :
        /\ reports' = IF pk \notin DOMAIN reports THEN Append(reports, report)
                      ELSE [reports EXCEPT ![pk] = report]
        /\ jobResults' = db.job
        /\ orderResults' = db.order
        /\ userResults' = db.user
        /\ last' = [op |-> "Report.save", pk |-> pk, instance |-> report,
                    is_new |-> pk \notin DOMAIN reports, raised |-> db.exception]
        /\ UNCHANGED <<form, items, threads, jobs, orders, last_login>>

Instance(title, type, ends) ==
    [title |-> title, report_type |-> type,
     quarter_from |-> ends[1], year_from |-> ends[2],
     quarter_to |-> ends[3], year_to |-> ends[4]]

\* the model follows one report, the first row of the Report table
ReportKeys == {1}

\* the enumerations a save of this instance draws: the managers and the
\* customers are enumerated by the user aggregator alone, once the range resolved
EnumerationsDrawn(report, S) ==
    IF /\ report.report_type \in {"user", "combined"}
       /\ ~IsError(GetDateRangeForReport(report))
    THEN Enumerations(S)
    ELSE {<<>>}

SaveReport(EditTitles, EditTypes, EditEnds) ==
    \E pk \in ReportKeys, title \in EditTitles, type \in EditTypes, ends \in EditEnds :
        \E managers \in EnumerationsDrawn(Instance(title, type, ends), AccountManagers),
           customers \in EnumerationsDrawn(Instance(title, type, ends), Customers) :
            ReportSave(pk, Instance(title, type, ends), managers, customers)

\* calculate_user_statistics(report) called on its own for a stored report;
\* the call records the orders in which it enumerated managers and customers
CallCalculateUserStatistics(pk, report, managers, customers) ==
    \E db \in {CalculateUserStatistics(pk, report,
                  [exception |-> "none", job |-> jobResults,
                   order |-> orderResults, user |-> userResults],
                  [jobs |-> jobs, orders |-> orders, last_login |-> last_login,
                   managers |-> managers, customers |-> customers])} :
        /\ pk \in DOMAIN reports
        /\ userResults' = db.user
        /\ last' = [op |-> "calculate_user_statistics", pk |-> pk,
                    instance |-> report, raised |-> db.exception,
                    manager_order |-> managers, customer_order |-> customers]
        /\ UNCHANGED <<form, items, threads, reports, jobResults, orderResults, jobs, orders,
                       last_login>>

-----------------------------------------------------------------------------
(* The collaborators that write the rows the aggregators read *)

Stamp(y, m, d, tick) == <<<<y, m, d>>, tick>>

LastTick == TicksPerDay - 1

JobRow(state, type, start, end, days) ==
    [state |-> state, job_type |-> type, starting_date |-> start,
     end_date |-> end, completion_time |-> days]

\* delta.total_seconds() / (24 * 3600) for delta = end_date - starting_date
DaysBetween(start, end) == Frac(TickNumber(end) - TickNumber(start), TicksPerDay)

\* the timestamp of the same year that lies the duration `days` after start
EndOf(start, days) ==
    CHOOSE end \in {Stamp(start[1][1], m, d, tick) :
                       m \in 1..12, d \in 1..31, tick \in 0..LastTick} :
        IsDate(end[1]) /\ DaysBetween(start, end) = days

\* Job.save with the calls it makes, after `computations` completion times
\* were computed in this call: <<the row stored, computations, exception>>.
\* super().save() stores the instance; if the job is completed, has an end
\* date and `not self.completion_time` (unset or 0), calculate_completion_time
\* assigns the duration and calls save again, which runs the same test.  The
\* interpreter ends the nesting with RecursionError at its recursion limit.
RECURSIVE JobSaved(_, _)
JobSaved(instance, computations) ==
    IF /\ instance.state = "completed"
       /\ instance.completion_time \in {NULL, Zero}
       /\ instance.end_date # NULL
    THEN IF computations = RecursionLimit
         THEN <<instance, computations, "RecursionError">>
         ELSE JobSaved([instance EXCEPT !.completion_time =
                           DaysBetween(instance.starting_date, instance.end_date)],
                       computations + 1)
    ELSE <<instance, computations, "none">>

\* job rows as stored: a completion time goes with the end date it was
\* computed from, and only a completed job carries one
JobRows(States, Types, Stamps, Durations) ==
    {JobRow(st, ty, ts, NULL, NULL) : st \in States \ {"completed"}, ty \in Types,
                                      ts \in Stamps}
    \cup
    {JobRow(st, ty, ts, IF d = NULL THEN NULL ELSE EndOf(ts, d), d) :
        st \in States \cap {"completed"}, ty \in Types, ts \in Stamps,
        d \in Durations}

\* Job.save of a new job
AddJob(Instances) ==
    /\ Len(jobs) < MaxJobs
    /\ \E instance \in Instances :
          \E saved \in {JobSaved(instance, 0)} :
              /\ jobs' = Append(jobs, saved[1])
              /\ last' = [op |-> "Job.save", pk |-> Len(jobs) + 1,
                          raised |-> saved[3], computations |-> saved[2]]
    /\ UNCHANGED <<form, items, threads, reports, jobResults, orderResults,
                   userResults, orders, last_login>>

\* Job.save of a stored job with its state and end date set
EditJob(States, Ends) ==
    /\ \E pk \in DOMAIN jobs, state \in States, end \in Ends :
          \E saved \in {JobSaved([jobs[pk] EXCEPT !.state = state,
                                                 !.end_date = end], 0)} :
              /\ jobs' = [jobs EXCEPT ![pk] = saved[1]]
              /\ last' = [op |-> "Job.save", pk |-> pk,
                          raised |-> saved[3], computations |-> saved[2]]
    /\ UNCHANGED <<form, items, threads, reports, jobResults, orderResults,
                   userResults, orders, last_login>>

OrderRow(status, created, completed, manager, customer, price) ==
    [status |-> status, created_at |-> created, completed_at |-> completed,
     account_manager |-> manager, customer |-> customer, total_price |-> price]

\* an order as stored: a completed order carries the time it was completed
\* at, here within the tick of its creation
StoredOrder(status, created, manager, customer, price) ==
    OrderRow(status, created, IF status = "completed" THEN created ELSE NULL,
             manager, customer, price)

\* Order.save, `if old_instance.status != 'completed' and self.status == 'completed'`
Completes(old, instance) == old.status # "completed" /\ instance.status = "completed"

\* Order.save of an instance whose row exists, at time now.  id is a UUIDField
\* with default uuid4, so self.pk is never None and the row is always looked up
OrderSaved(table, pk, instance, now) ==
    [table EXCEPT ![pk] = IF Completes(table[pk], instance)
                          THEN [instance EXCEPT !.completed_at = now]
                          ELSE instance]

\* Order.save of the order pk with its status set, or of a new instance with
\* that key: Order.objects.get(pk=self.pk) then raises DoesNotExist
SaveOrder(Keys, Statuses, Stamps) ==
    /\ \E pk \in Keys, status \in Statuses, now \in Stamps :
          IF pk \in DOMAIN orders
          THEN /\ TsLE(orders[pk].created_at, now)
               /\ orders[pk].completed_at # NULL => TsLE(orders[pk].completed_at, now)
               /\ orders' = OrderSaved(orders, pk,
                                       [orders[pk] EXCEPT !.status = status], now)
               /\ last' = [op |-> "Order.save", pk |-> pk, raised |-> "none",
                           stamped |-> Completes(orders[pk], [status |-> status])]
          ELSE /\ orders' = orders
               /\ last' = [op |-> "Order.save", pk |-> pk, raised |-> "DoesNotExist",
                           stamped |-> FALSE]
    /\ UNCHANGED <<form, items, threads, reports, jobResults, orderResults,
                   userResults, jobs, last_login>>

\* sum(item.price * item.quantity for item in self.items.all())
ItemsTotal(itemTable, order) ==
    IntSum(Map(SelectSeq(itemTable, LAMBDA item : item.order = order),
               LAMBDA item : item.price * item.quantity))

\* Order.update_total_price, called on the order of the item once it is
\* stored: the total is recomputed and the order saved
UpdateTotalPrice(orderTable, itemTable, order) ==
    OrderSaved(orderTable, order,
               [orderTable[order] EXCEPT !.total_price = ItemsTotal(itemTable, order)],
               orderTable[order].created_at)

\* OrderItem.save of a new item (key = Len(items) + 1) or of a stored one with
\* its order, quantity and price set: a price left unset or 0 becomes the
\* price of the service; the parent order then recomputes its total
SaveItem(Quantities, Prices, ServicePrices) ==
    /\ \E key \in 1..(Len(items) + 1), order \in DOMAIN orders,
          quantity \in Quantities, price \in Prices, service_price \in ServicePrices :
          /\ key <= MaxItems
          /\ \E stored \in {IF key \in DOMAIN items
                             THEN [items EXCEPT ![key] =
                                     [order |-> order, quantity |-> quantity,
                                      price |-> IF price = 0 THEN service_price
                                                ELSE price]]
                             ELSE Append(items,
                                     [order |-> order, quantity |-> quantity,
                                      price |-> IF price = 0 THEN service_price
                                                ELSE price])} :
                /\ items' = stored
                /\ orders' = UpdateTotalPrice(orders, stored, order)
          /\ last' = [op |-> "OrderItem.save", pk |-> key, raised |-> "none",
                      affected |-> {order} \cup (IF key \in DOMAIN items
                                                  THEN {items[key].order} ELSE {})]
    /\ UNCHANGED <<form, threads, reports, jobResults, orderResults, userResults,
                   jobs, last_login>>

\* OrderItem.delete: Model.delete, not overridden; the later items move up
DeleteItem ==
    /\ \E key \in DOMAIN items :
          /\ items' = [k \in 1..(Len(items) - 1) |->
                          IF k < key THEN items[k] ELSE items[k + 1]]
          /\ last' = [op |-> "OrderItem.delete", pk |-> key, raised |-> "none",
                      affected |-> {items[key].order}]
    /\ UNCHANGED <<form, threads, reports, jobResults, orderResults, userResults,
                   jobs, orders, last_login>>

NoLogins == [u \in Users |-> NULL]

\* django.contrib.auth login: last_login of the user becomes the time of login
Login(Who, Stamps) ==
    /\ \E u \in Who, now \in Stamps : last_login' = [last_login EXCEPT ![u] = now]
    /\ last' = [op |-> "login"]
    /\ UNCHANGED <<form, items, threads, reports, jobResults, orderResults, userResults,
                   jobs, orders>>

-----------------------------------------------------------------------------
(* Spec: reports created and edited while jobs, orders and logins arrive *)

Titles == {"a", "b"}

EditedEnds == {<<"Q1", 2024, "Q1", 2024>>, <<"Q2", 2024, "Q2", 2024>>,
               <<"Q5", 2024, "Q1", 2024>>, <<"Q1", 2024, "Q5", 2024>>}

\* the orders stored at the start: drafts of one customer and manager
StoredOrders ==
    [pk \in 1..MaxOrders |->
        StoredOrder("draft", Stamp(2024, 1, 1, 0), "m1", "c1", 10000)]

\* the jobs handed to save: completed two days after they started
ArrivingJobs ==
    {JobRow("completed", "regular", Stamp(2024, 1, 1, 0), Stamp(2024, 1, 3, 0), NULL)}

Init ==
    /\ form = NULL
    /\ reports = <<>>
    /\ jobResults = <<>>
    /\ orderResults = <<>>
    /\ userResults = <<>>
    /\ jobs = <<>>
    /\ orders = StoredOrders
    /\ last_login = NoLogins
    /\ items = NoItems
    /\ threads = NoThreads
    /\ last = NoCall

Next ==
    \/ SaveReport(Titles, ReportTypes, EditedEnds)
    \/ AddJob(ArrivingJobs)
    \/ SaveOrder({1}, {"completed"}, {Stamp(2024, 1, 1, 0)})
    \/ Login({"u1"}, {Stamp(2024, 1, 1, 0)})

Spec == Init /\ [][Next]_vars

-----------------------------------------------------------------------------
(* SpecStatistics: the aggregators over every small table of jobs and       *)
(* orders, the report saved and saved again with its range on Q1 2024       *)

BoundedSeq(S, n) == UNION {[1..k -> S] : k \in 0..n}

OrderRows(Statuses, Stamps, Managers, Buyers, Prices) ==
    {StoredOrder(status, created, manager, customer, price) :
        status \in Statuses, created \in Stamps, manager \in Managers,
        customer \in Buyers, price \in Prices}

DrawnJobRows ==
    JobRows({"completed", "failed"}, JobTypes,
            {Stamp(2024, 3, 31, 0), Stamp(2024, 3, 31, LastTick)},
            {Frac(4, 1), NULL})

DrawnOrderRows ==
    OrderRows({"draft", "completed"},
              {Stamp(2024, 3, 31, 0), Stamp(2024, 3, 31, LastTick)},
              {"m1"}, {"c1"}, {10000})
    \cup
    OrderRows({"draft", "completed"}, {Stamp(2024, 3, 31, 0)},
              {"m2"}, {"c2"}, {5000})

InitStatistics ==
    /\ form = NULL
    /\ reports = <<>>
    /\ jobResults = <<>>
    /\ orderResults = <<>>
    /\ userResults = <<>>
    /\ jobs \in BoundedSeq(DrawnJobRows, DrawnJobs)
    /\ orders \in BoundedSeq(DrawnOrderRows, DrawnOrders)
    /\ last_login = [NoLogins EXCEPT !["u1"] = Stamp(2024, 3, 31, 0)]
    /\ items = NoItems
    /\ threads = NoThreads
    /\ last = NoCall

NextStatistics == SaveReport({"a"}, ReportTypes, {<<"Q1", 2024, "Q1", 2024>>})

SpecStatistics == InitStatistics /\ [][NextStatistics]_vars

-----------------------------------------------------------------------------
(* The user aggregator called over drawn orders of two managers and two   *)
(* customers, for the first and for the second quarter of 2024            *)

PlacedOrderRows ==
    {OrderRow("submitted", ts, NULL, manager, customer, price) :
        ts \in {Stamp(2024, 3, 31, 0), Stamp(2024, 3, 31, LastTick)},
        manager \in AccountManagers, customer \in Customers,
        price \in {10000, 5000}}

InitUsers ==
    /\ form = NULL
    /\ reports = <<Instance("a", "user", <<"Q1", 2024, "Q1", 2024>>)>>
    /\ jobResults = <<>>
    /\ orderResults = <<>>
    /\ userResults = <<>>
    /\ jobs = <<>>
    /\ orders \in BoundedSeq(PlacedOrderRows, DrawnOrders)
    /\ last_login = NoLogins
    /\ items = NoItems
    /\ threads = NoThreads
    /\ last = NoCall

NextUsers ==
    \E ends \in {<<"Q1", 2024, "Q1", 2024>>, <<"Q2", 2024, "Q2", 2024>>},
       managers \in Enumerations(AccountManagers),
       customers \in Enumerations(Customers) :
        CallCalculateUserStatistics(1, Instance("a", "user", ends), managers, customers)

SpecUsers == InitUsers /\ [][NextUsers]_vars

-----------------------------------------------------------------------------
(* Orders saved with their status set, and their items added, changed,    *)
(* moved to another order and removed                                      *)

InitOrders ==
    /\ form = NULL
    /\ reports = <<>>
    /\ jobResults = <<>>
    /\ orderResults = <<>>
    /\ userResults = <<>>
    /\ jobs = <<>>
    /\ orders = [pk \in 1..(MaxOrders + 1) |->
                    StoredOrder("draft", Stamp(2024, 1, 1, 0), "m1", "c1", 0)]
    /\ last_login = NoLogins
    /\ items = NoItems
    /\ threads = NoThreads
    /\ last = NoCall

NextOrders ==
    \/ SaveOrder(1..(MaxOrders + 2), {"in_progress", "completed"},
                 {Stamp(2024, 1, 1, 0), Stamp(2024, 1, 1, LastTick)})
    \/ SaveItem({1, 2}, {0, 10000}, {5000})
    \/ DeleteItem

SpecOrders == InitOrders /\ [][NextOrders]_vars

-----------------------------------------------------------------------------
(* Jobs saved: new ones, and stored ones with their state and end date set *)

NewJobs ==
    {JobRow(state, type, start, end, NULL) :
        state \in {"active", "completed"}, type \in JobTypes,
        start \in {Stamp(2024, 1, 1, 0), Stamp(2024, 1, 1, LastTick)},
        end \in {NULL, Stamp(2024, 1, 1, LastTick), Stamp(2024, 1, 3, 0)}}

InitJobs ==
    /\ form = NULL
    /\ reports = <<>>
    /\ jobResults = <<>>
    /\ orderResults = <<>>
    /\ userResults = <<>>
    /\ jobs = <<>>
    /\ orders = <<>>
    /\ last_login = NoLogins
    /\ items = NoItems
    /\ threads = NoThreads
    /\ last = NoCall

NextJobs ==
    \/ AddJob(NewJobs)
    \/ EditJob({"active", "completed", "failed"},
               {NULL, Stamp(2024, 1, 1, LastTick), Stamp(2024, 1, 3, 0),
                Stamp(2024, 1, 5, 0)})

SpecJobs == InitJobs /\ [][NextJobs]_vars

-----------------------------------------------------------------------------
(* Two saves of one job report in flight at once: each statement of        *)
(* Report.save and calculate_job_statistics that reads or writes a table   *)
(* is a step of its thread                                                 *)

Threads == {1, 2}

Idle == [pc |-> "idle"]

\* an INSERT that ignores the unique index of the one-to-one relation
InsertUnchecked(table, pk, stats) ==
    [exception |-> "none", table |-> Append(table, [report |-> pk, fields |-> stats])]

\* INSERT into a result table: report is a OneToOneField, hence unique
Insert(table, pk, stats) ==
    IF RowsOf(table, pk) # {}
    THEN [exception |-> "IntegrityError", table |-> table]
    ELSE [exception |-> "none", table |-> Append(table, [report |-> pk, fields |-> stats])]

\* Report.save up to get_or_create: the report row is written, the range
\* resolved and the job aggregates queried
BeginSave(t, pk, report) ==
    /\ threads[t].pc = "idle"
    /\ pk \in DOMAIN reports
    /\ ~IsError(GetDateRangeForReport(report))
    /\ reports' = [reports EXCEPT ![pk] = report]
    /\ threads' = [threads EXCEPT ![t] =
                      [instance |-> report, pc |-> "get",
                       stats |-> JobStatistics(GetDateRangeForReport(report), jobs),
                       missed |-> FALSE, clashed |-> FALSE]]
    /\ UNCHANGED <<form, items, jobResults, orderResults, userResults, jobs,
                   orders, last_login, last>>

\* get_or_create: the get
GetResult(t, pk) ==
    /\ threads[t].pc = "get"
    /\ threads' = IF RowsOf(jobResults, pk) = {}
                  THEN [threads EXCEPT ![t].pc = "create", ![t].missed = TRUE]
                  ELSE [threads EXCEPT ![t].pc = "update"]
    /\ UNCHANGED <<form, items, reports, jobResults, orderResults, userResults,
                   jobs, orders, last_login, last>>

\* get_or_create: the create after a get that found nothing; on IntegrityError
\* get_or_create fetches the row that is there and reports created = False
CreateResult(t, pk) ==
    /\ threads[t].pc = "create"
    /\ \E ins \in {Insert(jobResults, pk, threads[t].stats)} :
          IF ins.exception = "none"
          THEN /\ jobResults' = ins.table
               /\ threads' = [threads EXCEPT ![t].pc = "done"]
          ELSE /\ jobResults' = jobResults
               /\ threads' = [threads EXCEPT ![t].pc = "update", ![t].clashed = TRUE]
    /\ UNCHANGED <<form, items, reports, orderResults, userResults, jobs, orders,
                   last_login, last>>

\* if not created: the fields are assigned and the row is saved
UpdateResult(t, pk) ==
    /\ threads[t].pc = "update"
    /\ jobResults' = [i \in DOMAIN jobResults |->
                        IF i \in RowsOf(jobResults, pk)
                        THEN [jobResults[i] EXCEPT !.fields = threads[t].stats]
                        ELSE jobResults[i]]
    /\ threads' = [threads EXCEPT ![t].pc = "done"]
    /\ UNCHANGED <<form, items, reports, orderResults, userResults, jobs, orders,
                   last_login, last>>

\* the save returns
ReturnFromSave(t, pk) ==
    /\ threads[t].pc = "done"
    /\ threads' = [threads EXCEPT ![t] = Idle]
    /\ last' = [op |-> "Report.save", pk |-> pk, instance |-> threads[t].instance,
                is_new |-> FALSE, raised |-> "none"]
    /\ UNCHANGED <<form, items, reports, jobResults, orderResults, userResults,
                   jobs, orders, last_login>>

InitRace ==
    /\ form = NULL
    /\ reports = <<Instance("a", "job", <<"Q1", 2024, "Q1", 2024>>)>>
    /\ jobResults = <<>>
    /\ orderResults = <<>>
    /\ userResults = <<>>
    /\ jobs \in BoundedSeq({JobSaved(job, 0)[1] : job \in ArrivingJobs}, MaxJobs)
    /\ orders = <<>>
    /\ last_login = NoLogins
    /\ items = NoItems
    /\ threads = [t \in Threads |-> Idle]
    /\ last = NoCall

NextRace ==
    \E t \in Threads :
        \/ \E ends \in {<<"Q1", 2024, "Q1", 2024>>, <<"Q2", 2024, "Q2", 2024>>} :
              BeginSave(t, 1, Instance("a", "job", ends))
        \/ GetResult(t, 1)
        \/ CreateResult(t, 1)
        \/ UpdateResult(t, 1)
        \/ ReturnFromSave(t, 1)

SpecRace == InitRace /\ [][NextRace]_vars

-----------------------------------------------------------------------------
(* Claims about Report.save and the result tables *)

\* the result kinds a report type implies
ImpliedKinds(type) ==
    CASE type = "job" -> {"job"}
      [] type = "order" -> {"order"}
      [] type = "user" -> {"user"}
      [] type = "combined" -> {"job", "order", "user"}

\* the latest call was a report save, and it returned normally
SavedNormally == last.op = "Report.save" /\ last.raised = "none"

HasRow(table, pk, Fresh(_)) ==
    \E i \in DOMAIN table : table[i].report = pk /\ Fresh(table[i].fields)

\* C1: after any report save that returns normally (creation or update, also
\* one that changes only the title), the stored report is the one saved and,
\* for every result kind implied by its type, there is a result row of that
\* report whose fields equal the aggregates over the jobs, orders and users
\* as they are at that save.
C1_SaveRecomputes ==
    SavedNormally =>
        LET report == reports[last.pk]
            range == GetDateRangeForReport(report)
            kinds == ImpliedKinds(report.report_type)
        IN  /\ report = last.instance
            /\ "job" \in kinds =>
                 HasRow(jobResults, last.pk,
                        LAMBDA f : f = JobStatistics(range, jobs))
            /\ "order" \in kinds =>
                 HasRow(orderResults, last.pk,
                        LAMBDA f : f = OrderStatistics(range, orders))
            /\ "user" \in kinds =>
                 HasRow(userResults, last.pk,
                        LAMBDA f : \E managers \in Enumerations(AccountManagers),
                                      customers \in Enumerations(Customers) :
                            f = UserStatistics(range, orders, last_login,
                                               managers, customers))

\* C1 witness: an update of a combined report returned normally with a job, an
\* order and a login counted in its rows.
C1_Witness ==
    /\ SavedNormally
    /\ ~last.is_new
    /\ last.instance.report_type = "combined"
    /\ HasRow(jobResults, last.pk, LAMBDA f : f.total_jobs = 1)
    /\ HasRow(orderResults, last.pk, LAMBDA f : f.total_orders = 1)
    /\ HasRow(userResults, last.pk, LAMBDA f : f.total_active_users = 1)

\* C2: a report save invokes exactly the aggregators implied by the type of
\* the report: the tables of the kinds not implied are left as they were (no
\* row created, modified or deleted), also when the type was changed since an
\* earlier save, and after a normal return each implied kind has its row.
C2_OnlyImpliedKinds ==
    [][last'.op = "Report.save" =>
         LET kinds == ImpliedKinds(last'.instance.report_type)
         IN  /\ "job" \notin kinds => jobResults' = jobResults
             /\ "order" \notin kinds => orderResults' = orderResults
             /\ "user" \notin kinds => userResults' = userResults
             /\ last'.raised = "none" =>
                  /\ "job" \in kinds => RowsOf(jobResults', last'.pk) # {}
                  /\ "order" \in kinds => RowsOf(orderResults', last'.pk) # {}
                  /\ "user" \in kinds => RowsOf(userResults', last'.pk) # {}]_vars

\* C2 witness: a report saved as a job report keeps the order row of an
\* earlier save under another type, now out of date.
C2_Witness ==
    /\ SavedNormally
    /\ last.instance.report_type = "job"
    /\ HasRow(orderResults, last.pk,
              LAMBDA f : f # OrderStatistics(GetDateRangeForReport(last.instance), orders))

\* C3: after any sequence of saves, each report has at most one
\* JobReportResult, at most one OrderReportResult and at most one
\* UserReportResult, and no row belongs to no report.
C3_AtMostOneRow ==
    /\ \A pk \in DOMAIN reports :
          /\ Cardinality(RowsOf(jobResults, pk)) <= 1
          /\ Cardinality(RowsOf(orderResults, pk)) <= 1
          /\ Cardinality(RowsOf(userResults, pk)) <= 1
    /\ \A i \in DOMAIN jobResults : jobResults[i].report \in DOMAIN reports
    /\ \A i \in DOMAIN orderResults : orderResults[i].report \in DOMAIN reports
    /\ \A i \in DOMAIN userResults : userResults[i].report \in DOMAIN reports

\* C3 witness: a combined report saved again, each table holding its one row.
C3_Witness ==
    /\ SavedNormally
    /\ ~last.is_new
    /\ last.instance.report_type = "combined"
    /\ Len(jobResults) = 1 /\ Len(orderResults) = 1 /\ Len(userResults) = 1

\* C4 (as stated): a save repeated with the data and the report unchanged
\* leaves every result row as the save before it left it.
C4_Idempotent ==
    [][(/\ SavedNormally
        /\ last'.op = "Report.save" /\ last'.raised = "none"
        /\ last'.pk = last.pk /\ last'.instance = last.instance)
       => /\ jobResults' = jobResults
          /\ orderResults' = orderResults
          /\ userResults' = userResults]_vars

\* C7 (as stated): a save of a report with a quarter tag outside {Q1..Q4} in
\* either endpoint raises, and leaves the stored report and the stored result
\* rows as they were.
C7_FailedSaveWritesNothing ==
    [][(/\ last'.op = "Report.save"
        /\ \/ last'.instance.quarter_from \notin Quarters
           \/ last'.instance.quarter_to \notin Quarters)
       => /\ last'.raised = "ValueError"
          /\ reports' = reports
          /\ jobResults' = jobResults
          /\ orderResults' = orderResults
          /\ userResults' = userResults]_vars

\* a timestamp on a day from the first to the last day of the range
WithinDates(ts, range) == DateLE(range.start, ts[1]) /\ DateLE(ts[1], range.end)

\* C8 (as stated): the job aggregator counts exactly the jobs started on a
\* day of the range, the order aggregator exactly the orders created on a day
\* of the range, at any time of the first and of the last day.
C8_InclusiveRange ==
    SavedNormally =>
        LET range == GetDateRangeForReport(last.instance)
            kinds == ImpliedKinds(last.instance.report_type)
        IN  /\ "job" \in kinds =>
                 HasRow(jobResults, last.pk,
                        LAMBDA f : f.total_jobs =
                            Count(jobs, LAMBDA j : WithinDates(j.starting_date, range)))
            /\ "order" \in kinds =>
                 HasRow(orderResults, last.pk,
                        LAMBDA f : f.total_orders =
                            Count(orders, LAMBDA o : WithinDates(o.created_at, range)))

\* the mean of the completion times present, 0 when there is none
MeanCompletion(jobSeq) ==
    LET timed == SelectSeq(jobSeq, LAMBDA j : j.completion_time # NULL)
        total == FracSum(Map(timed, LAMBDA j : j.completion_time))
    IN  IF timed = <<>> THEN Zero ELSE Frac(total[1], total[2] * Len(timed))

\* C9 (as stated): for each job type T the stored avg_completion_time_T is
\* the mean completion time of the completed jobs of type T started on a day
\* of the range, and 0 when there is none.
C9_MeanCompletionInRange ==
    (SavedNormally /\ "job" \in ImpliedKinds(last.instance.report_type)) =>
        LET range == GetDateRangeForReport(last.instance)
            Done(type) == SelectSeq(jobs,
                LAMBDA j : /\ WithinDates(j.starting_date, range)
                           /\ j.state = "completed" /\ j.job_type = type)
        IN  HasRow(jobResults, last.pk,
                   LAMBDA f :
                      /\ f.avg_completion_time_regular = MeanCompletion(Done("regular"))
                      /\ f.avg_completion_time_wafer_run = MeanCompletion(Done("wafer_run")))

\* C10 (as stated): the stored avg_processing_time is null when the orders
\* the aggregator selects hold none with status completed and completed_at
\* set, and otherwise the mean of completed_at - created_at, in days, over
\* those orders.
C10_MeanProcessingTime ==
    (SavedNormally /\ "order" \in ImpliedKinds(last.instance.report_type)) =>
        LET range == GetDateRangeForReport(last.instance)
            done == SelectSeq(OrdersInPeriod(range, orders),
                        LAMBDA o : o.status = "completed" /\ o.completed_at # NULL)
            ticks == IntSum(Map(done,
                        LAMBDA o : TickNumber(o.completed_at) - TickNumber(o.created_at)))
        IN  HasRow(orderResults, last.pk,
                   LAMBDA f : f.avg_processing_time =
                       IF done = <<>> THEN NULL
                       ELSE Frac(ticks, Len(done) * TicksPerDay))

\* C11 (as stated): for the orders created on a day of the range the order
\* aggregator stores their number, the sum of their total prices (0 when there
\* is none), that sum divided by their number (0 when there is none) and one
\* count per status, the five counts adding up to total_orders.
C11_OrderTotals ==
    (SavedNormally /\ "order" \in ImpliedKinds(last.instance.report_type)) =>
        LET range == GetDateRangeForReport(last.instance)
            created == SelectSeq(orders, LAMBDA o : WithinDates(o.created_at, range))
        IN  HasRow(orderResults, last.pk,
                   LAMBDA f :
                      /\ f.total_orders = Len(created)
                      /\ f.total_revenue = Revenue(created)
                      /\ f.average_order_value * f.total_orders = f.total_revenue
                      /\ f.orders_draft + f.orders_submitted + f.orders_in_progress
                           + f.orders_completed + f.orders_cancelled = f.total_orders)

\* the latest call was calculate_user_statistics, and it returned normally
UsersCalculated == last.op = "calculate_user_statistics" /\ last.raised = "none"

\* the orders of a manager, or of a customer, created on a day of the range
ManagerOrders(manager, range) ==
    SelectSeq(orders, LAMBDA o : /\ o.account_manager = manager
                                 /\ WithinDates(o.created_at, range))

CustomerOrders(customer, range) ==
    SelectSeq(orders, LAMBDA o : /\ o.customer = customer
                                 /\ WithinDates(o.created_at, range))

\* the position in the enumeration of its first row with the most orders
FirstWithMost(enum, OrdersOf(_)) ==
    CHOOSE i \in DOMAIN enum :
        /\ \A j \in DOMAIN enum : Len(OrdersOf(enum[j])) <= Len(OrdersOf(enum[i]))
        /\ \A j \in 1..(i - 1) : Len(OrdersOf(enum[j])) < Len(OrdersOf(enum[i]))

\* C12 (as stated): when some manager has an order created on a day of the
\* range, the stored top manager is the user of the manager enumerated first
\* among those with the most such orders, whatever their revenues, and the
\* stored totals are the number and the revenue of that manager's orders.
C12_TopManager ==
    UsersCalculated =>
        LET range == GetDateRangeForReport(last.instance)
            Of(m) == ManagerOrders(m, range)
            top == last.manager_order[FirstWithMost(last.manager_order, Of)]
        IN  Len(Of(top)) > 0 =>
                HasRow(userResults, last.pk,
                       LAMBDA f :
                          /\ f.top_performing_account_manager = UserOf[top]
                          /\ f.total_orders_by_top_manager = Len(Of(top))
                          /\ f.total_revenue_by_top_manager = Revenue(Of(top)))

\* C13 (as stated): the stored top customer is the user of the customer
\* enumerated first among those with the most orders created on a day of the
\* range; when no order was created in the range both top fields are unset
\* and both totals are 0; and the two top fields are set or unset together.
C13_TopCustomer ==
    UsersCalculated =>
        LET range == GetDateRangeForReport(last.instance)
            Of(c) == CustomerOrders(c, range)
            top == last.customer_order[FirstWithMost(last.customer_order, Of)]
        IN  HasRow(userResults, last.pk,
                   LAMBDA f :
                      /\ Len(Of(top)) > 0 => f.top_customer = UserOf[top]
                      /\ Len(Of(top)) = 0 =>
                            /\ f.top_performing_account_manager = NoUser
                            /\ f.top_customer = NoUser
                            /\ f.total_orders_by_top_manager = 0
                            /\ f.total_revenue_by_top_manager = 0
                      /\ (f.top_performing_account_manager = NoUser)
                            <=> (f.top_customer = NoUser))

\* a thread whose save is past its get_or_create, having found no row at the get
Raced(t) == threads[t].pc = "done" /\ threads[t].missed

\* C14 (amended): under every interleaving of two saves of the same report
\* the report has at most one result row of the kind: a save whose get found
\* no row and whose create then meets the row of the other save is refused by
\* the unique one-to-one relation and updates that row instead.
C14_RaceKeepsOneRow ==
    /\ Cardinality(RowsOf(jobResults, 1)) <= 1
    /\ \A t \in Threads :
          (threads[t].pc \in {"update", "done"}) => RowsOf(jobResults, 1) # {}

\* C14 witness: both saves found no row at their get and both are past the
\* upsert, one of them refused at its create.
C14_Witness ==
    /\ \A t \in Threads : Raced(t)
    /\ \E t \in Threads : threads[t].clashed

\* C14 (as stated): two saves of the same report that both found no row at
\* their get leave two result rows of the kind for the one report.
C14_AsStated ==
    (\A t \in Threads : Raced(t)) => Cardinality(RowsOf(jobResults, 1)) = 2

\* C15 (as stated): a save of an order assigns completed_at only when it moves
\* the status from a value other than completed to completed, and never to an
\* order whose completed_at was assigned before; no other step changes it.
C15_CompletedAtSetOnce ==
    [][\A pk \in DOMAIN orders :
          /\ (last'.op = "Order.save" /\ last'.pk = pk /\ last'.stamped) =>
                /\ orders[pk].status # "completed"
                /\ orders'[pk].status = "completed"
                /\ orders[pk].completed_at = NULL
          /\ ~(last'.op = "Order.save" /\ last'.pk = pk /\ last'.stamped) =>
                orders'[pk].completed_at = orders[pk].completed_at]_vars

\* C16 (as stated): after an item is added, changed, moved to another order or
\* removed, the total price of each order it belonged or belongs to is the sum
\* of quantity x unit price over the items of that order.
C16_TotalIsSumOfItems ==
    last.op \in {"OrderItem.save", "OrderItem.delete"} =>
        \A order \in last.affected :
            orders[order].total_price = ItemsTotal(items, order)

\* C17 (as stated): every stored job carries a completion time only if it is
\* completed and has an end date, and a completion time it carries is the
\* time from its starting date to its end date, in days.
C17_CompletionTimeMatches ==
    \A pk \in DOMAIN jobs :
        jobs[pk].completion_time # NULL =>
            /\ jobs[pk].state = "completed"
            /\ jobs[pk].end_date # NULL
            /\ jobs[pk].completion_time =
                   DaysBetween(jobs[pk].starting_date, jobs[pk].end_date)

\* C18 (as stated): every Job.save returns, after at most one computation of
\* the completion time, also for a completed job that ends when it starts.
C18_SaveTerminates ==
    last.op = "Job.save" => last.raised = "none" /\ last.computations <= 1

====
